---- MODULE Spec2Model ----
(***************************************************************************)
(* Model of the wallet client state of wallet/src/state.rs: ClientState,   *)
(* its block scanner (scan_block), the asset registry, the unspent-note     *)
(* views and the transaction assembler (new_transaction).                   *)
(*                                                                          *)
(* Cryptographic objects are abstracted to the data the state engine sees:  *)
(*   - a note commitment is a small integer; wire bytes that do not decode  *)
(*     are the value BadBytes;                                              *)
(*   - a nullifier is the pair <<position, commitment>> (derive_nullifier   *)
(*     is injective in both arguments, the full viewing key is fixed);      *)
(*   - an encrypted note is the note it carries plus whether it is          *)
(*     encrypted to this wallet's incoming viewing key;                     *)
(*   - the note commitment tree is the sequence of appended leaves and the  *)
(*     set of witnessed positions.                                          *)
(***************************************************************************)
EXTENDS Integers, Sequences, FiniteSets, TLC

(***************************************************************************)
(* Bounds of the model.                                                     *)
(***************************************************************************)
MaxHeight == 1      \* the greatest block height (the model's u32::MAX)
MaxLeaves == 2      \* a block is offered only if the tree stays within this many leaves
WordBits == 3       \* width of the model's u64 (amounts wrap modulo 2^WordBits)

MAX_MERKLE_CHECKPOINTS_CLIENT == 10

(***************************************************************************)
(* Option<T>: None is the empty sequence, Some(x) is <<x>>.                 *)
(***************************************************************************)
None == << >>
Some(x) == << x >>
IsSome(o) == o # << >>
Unwrap(o) == o[1]

(***************************************************************************)
(* BTreeMap<K, V> as a function on its key set.                             *)
(***************************************************************************)
EmptyMap == << >>
MapInsert(m, k, v) == [x \in (DOMAIN m) \cup {k} |-> IF x = k THEN v ELSE m[x]]
MapRemove(m, k) == [x \in (DOMAIN m) \ {k} |-> m[x]]
ContainsKey(m, k) == k \in DOMAIN m

(***************************************************************************)
(* The universe of inputs.                                                  *)
(***************************************************************************)
Commitments == {1, 2, 3, 4}
ScanCommitments == {1, 2}
BadBytes == 0
AssetIds == {1, 2}
DenomOf(asset_id) == IF asset_id = 1 THEN "upenumbra" ELSE "ugm"
Denoms == {"upenumbra", "ugm"}

\* The note a commitment binds: asset id, amount and the diversifier index of
\* the receiving address, and the commitment Note::commit computes for it.
NoteOf(c) ==
    CASE c = 1 -> [asset_id |-> 1, amount |-> 1, diversifier |-> "d0", commit |-> 1]
      [] c = 2 -> [asset_id |-> 2, amount |-> 2, diversifier |-> "d1", commit |-> 2]
      [] c = 3 -> [asset_id |-> 1, amount |-> 2, diversifier |-> "d1", commit |-> 3]
      [] OTHER -> [asset_id |-> 1, amount |-> 3, diversifier |-> "d0", commit |-> 4]

(***************************************************************************)
(* Decoding of wire bytes (TryFrom<&[u8]>) and the external crypto.         *)
(***************************************************************************)
DecodeCommitment(bytes) == IF bytes \in Commitments THEN Some(bytes) ELSE None
DecodeEphemeralKey(bytes) == IF bytes = "epk" THEN Some(bytes) ELSE None
DecodeNullifier(bytes) == IF bytes.canonical THEN Some(bytes.nf) ELSE None

\* Note::decrypt: succeeds exactly on ciphertexts encrypted to our key.
Decrypt(encrypted_note) ==
    IF encrypted_note.ours THEN Some(encrypted_note.note) ELSE None

\* FullViewingKey::derive_nullifier(pos, commitment)
derive_nullifier(pos, c) == << pos, c >>

(***************************************************************************)
(* Note commitment tree (merkle::NoteCommitmentTree).                       *)
(***************************************************************************)
NoteCommitmentTree_new(max_checkpoints) ==
    [leaves |-> << >>, witnessed |-> {}, max_checkpoints |-> max_checkpoints]

\* Frontier::append: adds one leaf, cannot fail.
TreeAppend(tree, c) == [tree EXCEPT !.leaves = Append(@, c)]

\* Tree::witness: marks the most recently appended leaf as retained.
TreeWitness(tree) ==
    IF Len(tree.leaves) = 0 THEN tree
    ELSE [tree EXCEPT !.witnessed = @ \cup {Len(tree.leaves) - 1}]

SetMax(S) == CHOOSE x \in S : \A y \in S : y <= x

\* Tree::authentication_path: the position of a retained leaf, or None.
\* The sibling hashes are not modelled.
authentication_path(tree, c) ==
    LET P == {p \in tree.witnessed : tree.leaves[p + 1] = c}
    IN  IF P = {} THEN None ELSE Some(SetMax(P))

(***************************************************************************)
(* ClientState::new                                                         *)
(***************************************************************************)
ClientState_new ==
    [last_block_height |-> None,
     note_commitment_tree |-> NoteCommitmentTree_new(MAX_MERKLE_CHECKPOINTS_CLIENT),
     nullifier_map |-> EmptyMap,
     unspent_set |-> EmptyMap,
     spent_set |-> EmptyMap,
     transactions |-> EmptyMap,
     asset_registry |-> EmptyMap]

(***************************************************************************)
(* scan_block, fragment phase (state.rs 287-331).  The result carries the   *)
(* state reached and the error that ended the loop, if any.                 *)
(***************************************************************************)
\* Variant: the note is recorded at the tip position without witnessing the leaf.
ScanFragmentNoWitness(st, fragment) ==
    LET cm == DecodeCommitment(fragment.note_commitment) IN
    IF ~IsSome(cm) THEN [st |-> st, err |-> "invalid note commitment"]
    ELSE
    LET c  == Unwrap(cm)
        s1 == [st EXCEPT !.note_commitment_tree = TreeAppend(@, c)]
        ek == DecodeEphemeralKey(fragment.ephemeral_key)
    IN
    IF ~IsSome(ek) THEN [st |-> s1, err |-> "invalid ephemeral key"]
    ELSE
    LET note == Decrypt(fragment.encrypted_note) IN
    IF ~IsSome(note) THEN [st |-> s1, err |-> "none"]
    ELSE
    LET nf == derive_nullifier(Len(s1.note_commitment_tree.leaves) - 1, c)
        s3 == [s1 EXCEPT !.nullifier_map = MapInsert(@, nf, c)]
        s4 == [s3 EXCEPT !.unspent_set = MapInsert(@, c, Unwrap(note))]
    IN  [st |-> s4, err |-> "none"]

\* Variant: the commitment is appended only once its note has been decrypted.
ScanFragmentAppendAfterDecrypt(st, fragment) ==
    LET cm == DecodeCommitment(fragment.note_commitment) IN
    IF ~IsSome(cm) THEN [st |-> st, err |-> "invalid note commitment"]
    ELSE
    LET c  == Unwrap(cm)
        ek == DecodeEphemeralKey(fragment.ephemeral_key)
    IN
    IF ~IsSome(ek) THEN [st |-> st, err |-> "invalid ephemeral key"]
    ELSE
    LET note == Decrypt(fragment.encrypted_note) IN
    IF ~IsSome(note) THEN [st |-> st, err |-> "none"]
    ELSE
    LET s2   == [st EXCEPT !.note_commitment_tree = TreeWitness(TreeAppend(@, c))]
        path == authentication_path(s2.note_commitment_tree, c)
    IN
    IF ~IsSome(path) THEN [st |-> s2, err |-> "panic: we just witnessed this commitment"]
    ELSE
    LET nf == derive_nullifier(Unwrap(path), c)
        s3 == [s2 EXCEPT !.nullifier_map = MapInsert(@, nf, c)]
        s4 == [s3 EXCEPT !.unspent_set = MapInsert(@, c, Unwrap(note))]
    IN  [st |-> s4, err |-> "none"]

\* Variant: every appended leaf is witnessed, whoever the note belongs to.
ScanFragmentWitnessesAll(st, fragment) ==
    LET cm == DecodeCommitment(fragment.note_commitment) IN
    IF ~IsSome(cm) THEN [st |-> st, err |-> "invalid note commitment"]
    ELSE
    LET c  == Unwrap(cm)
        s1 == [st EXCEPT !.note_commitment_tree = TreeWitness(TreeAppend(@, c))]
        ek == DecodeEphemeralKey(fragment.ephemeral_key)
    IN
    IF ~IsSome(ek) THEN [st |-> s1, err |-> "invalid ephemeral key"]
    ELSE
    LET note == Decrypt(fragment.encrypted_note) IN
    IF ~IsSome(note) THEN [st |-> s1, err |-> "none"]
    ELSE
    LET path == authentication_path(s1.note_commitment_tree, c) IN
    IF ~IsSome(path) THEN [st |-> s1, err |-> "panic: we just witnessed this commitment"]
    ELSE
    LET nf == derive_nullifier(Unwrap(path), c)
        s3 == [s1 EXCEPT !.nullifier_map = MapInsert(@, nf, c)]
        s4 == [s3 EXCEPT !.unspent_set = MapInsert(@, c, Unwrap(note))]
    IN  [st |-> s4, err |-> "none"]

ScanFragment(st, fragment) ==
    LET cm == DecodeCommitment(fragment.note_commitment) IN
    IF ~IsSome(cm) THEN [st |-> st, err |-> "invalid note commitment"]
    ELSE
    LET c  == Unwrap(cm)
        s1 == [st EXCEPT !.note_commitment_tree = TreeAppend(@, c)]
        ek == DecodeEphemeralKey(fragment.ephemeral_key)
    IN
    IF ~IsSome(ek) THEN [st |-> s1, err |-> "invalid ephemeral key"]
    ELSE
    LET note == Decrypt(fragment.encrypted_note) IN
    IF ~IsSome(note) THEN [st |-> s1, err |-> "none"]
    ELSE
    LET s2   == [s1 EXCEPT !.note_commitment_tree = TreeWitness(@)]
        path == authentication_path(s2.note_commitment_tree, c)
    IN
    IF ~IsSome(path) THEN [st |-> s2, err |-> "panic: we just witnessed this commitment"]
    ELSE
    LET nf == derive_nullifier(Unwrap(path), c)
        s3 == [s2 EXCEPT !.nullifier_map = MapInsert(@, nf, c)]
        s4 == [s3 EXCEPT !.unspent_set = MapInsert(@, c, Unwrap(note))]
    IN  [st |-> s4, err |-> "none"]

RECURSIVE ScanFragments(_, _, _)
ScanFragments(st, fragments, i) ==
    IF i > Len(fragments) THEN [st |-> st, err |-> "none"]
    ELSE LET r == ScanFragment(st, fragments[i])
         IN  IF r.err # "none" THEN r
             ELSE ScanFragments(r.st, fragments, i + 1)

(***************************************************************************)
(* scan_block, nullifier phase (state.rs 335-370).  log collects the        *)
(* warn- and error-level events of the loop.                                *)
(***************************************************************************)
\* Variant: a spent note is removed from unspent_set and not kept anywhere.
ScanNullifierDropsNote(acc, bytes) ==
    LET st == acc.st
        n  == DecodeNullifier(bytes)
    IN
    IF ~IsSome(n) THEN [acc EXCEPT !.log = @ \cup {"invalid nullifier"}]
    ELSE
    LET nullifier == Unwrap(n) IN
    IF ~ContainsKey(st.nullifier_map, nullifier) THEN acc
    ELSE
    LET c == st.nullifier_map[nullifier] IN
    IF ContainsKey(st.unspent_set, c)
    THEN [acc EXCEPT !.st = [st EXCEPT !.unspent_set = MapRemove(@, c)]]
    ELSE IF ContainsKey(st.spent_set, c) THEN acc
    ELSE [acc EXCEPT !.log = @ \cup {"note is not in unspent set or spent set"}]

\* Variant: a repeated nullifier takes its note back out of the spent set.
ScanNullifierUnspendsRepeated(acc, bytes) ==
    LET st == acc.st
        n  == DecodeNullifier(bytes)
    IN
    IF ~IsSome(n) THEN [acc EXCEPT !.log = @ \cup {"invalid nullifier"}]
    ELSE
    LET nullifier == Unwrap(n) IN
    IF ~ContainsKey(st.nullifier_map, nullifier) THEN acc
    ELSE
    LET c == st.nullifier_map[nullifier] IN
    IF ContainsKey(st.unspent_set, c)
    THEN [acc EXCEPT !.st = [st EXCEPT !.unspent_set = MapRemove(@, c),
                                       !.spent_set = MapInsert(@, c, st.unspent_set[c])]]
    ELSE IF ContainsKey(st.spent_set, c)
    THEN [acc EXCEPT !.st = [st EXCEPT !.spent_set = MapRemove(@, c),
                                       !.unspent_set = MapInsert(@, c, st.spent_set[c])]]
    ELSE [acc EXCEPT !.log = @ \cup {"note is not in unspent set or spent set"}]

\* Variant: a nullifier that has spent its note is forgotten.
ScanNullifierForgetsNullifier(acc, bytes) ==
    LET st == acc.st
        n  == DecodeNullifier(bytes)
    IN
    IF ~IsSome(n) THEN [acc EXCEPT !.log = @ \cup {"invalid nullifier"}]
    ELSE
    LET nullifier == Unwrap(n) IN
    IF ~ContainsKey(st.nullifier_map, nullifier) THEN acc
    ELSE
    LET c == st.nullifier_map[nullifier] IN
    IF ContainsKey(st.unspent_set, c)
    THEN [acc EXCEPT !.st = [st EXCEPT !.unspent_set = MapRemove(@, c),
                                       !.spent_set = MapInsert(@, c, st.unspent_set[c]),
                                       !.nullifier_map = MapRemove(@, nullifier)]]
    ELSE IF ContainsKey(st.spent_set, c) THEN acc
    ELSE [acc EXCEPT !.log = @ \cup {"note is not in unspent set or spent set"}]

ScanNullifier(acc, bytes) ==
    LET st == acc.st
        n  == DecodeNullifier(bytes)
    IN
    IF ~IsSome(n) THEN [acc EXCEPT !.log = @ \cup {"invalid nullifier"}]
    ELSE
    LET nullifier == Unwrap(n) IN
    IF ~ContainsKey(st.nullifier_map, nullifier) THEN acc
    ELSE
    LET c == st.nullifier_map[nullifier] IN
    IF ContainsKey(st.unspent_set, c)
    THEN [acc EXCEPT !.st = [st EXCEPT !.unspent_set = MapRemove(@, c),
                                       !.spent_set = MapInsert(@, c, st.unspent_set[c])]]
    ELSE IF ContainsKey(st.spent_set, c) THEN acc
    ELSE [acc EXCEPT !.log = @ \cup {"note is not in unspent set or spent set"}]

RECURSIVE ScanNullifiers(_, _, _)
ScanNullifiers(acc, nullifiers, i) ==
    IF i > Len(nullifiers) THEN acc
    ELSE ScanNullifiers(ScanNullifier(acc, nullifiers[i]), nullifiers, i + 1)

(***************************************************************************)
(* scan_block (state.rs 271-377).                                           *)
(***************************************************************************)
\* u32 addition: the wrapped value and whether it overflowed.  With overflow
\* checks compiled in the overflow is a panic, without them the wrapped value
\* is used.
U32Add(a, b) == [v |-> (a + b) % (MaxHeight + 1), overflow |-> a + b > MaxHeight]

\* The guard of the second arm of lines 280-284 panics: last_height + 1
\* overflows in a build with overflow checks, whatever the height offered.
HeightPanics(last_block_height, checked) ==
    /\ IsSome(last_block_height)
    /\ checked
    /\ U32Add(Unwrap(last_block_height), 1).overflow

\* The height dance of lines 280-284.
HeightAccepted(height, last_block_height, checked) ==
    \/ height = 0 /\ last_block_height = None
    \/ /\ IsSome(last_block_height)
       /\ ~HeightPanics(last_block_height, checked)
       /\ height = U32Add(Unwrap(last_block_height), 1).v

\* Variant: the nullifiers of a block are processed before its fragments.
ScanBlockNullifiersFirst(st, block, checked) ==
    IF HeightPanics(st.last_block_height, checked)
    THEN [st |-> st, res |-> "panic: attempt to add with overflow", log |-> {}]
    ELSE IF ~HeightAccepted(block.height, st.last_block_height, checked)
    THEN [st |-> st, res |-> "unexpected block height", log |-> {}]
    ELSE
    LET n == ScanNullifiers([st |-> st, log |-> {}], block.nullifiers, 1)
        f == ScanFragments(n.st, block.fragments, 1)
    IN
    IF f.err # "none" THEN [st |-> f.st, res |-> f.err, log |-> {}]
    ELSE [st  |-> [f.st EXCEPT !.last_block_height = Some(block.height)],
          res |-> "Ok",
          log |-> n.log]

\* Variant: a nullifier that does not decode fails the block, like a fragment.
ScanBlockFailsOnBadNullifier(st, block, checked) ==
    IF HeightPanics(st.last_block_height, checked)
    THEN [st |-> st, res |-> "panic: attempt to add with overflow", log |-> {}]
    ELSE IF ~HeightAccepted(block.height, st.last_block_height, checked)
    THEN [st |-> st, res |-> "unexpected block height", log |-> {}]
    ELSE
    LET f == ScanFragments(st, block.fragments, 1) IN
    IF f.err # "none" THEN [st |-> f.st, res |-> f.err, log |-> {}]
    ELSE IF \E i \in 1 .. Len(block.nullifiers) : ~IsSome(DecodeNullifier(block.nullifiers[i]))
    THEN [st |-> f.st, res |-> "invalid nullifier", log |-> {}]
    ELSE
    LET n == ScanNullifiers([st |-> f.st, log |-> {}], block.nullifiers, 1)
    IN  [st  |-> [n.st EXCEPT !.last_block_height = Some(block.height)],
         res |-> "Ok",
         log |-> n.log]

ScanBlock(st, block, checked) ==
    IF HeightPanics(st.last_block_height, checked)
    THEN [st |-> st, res |-> "panic: attempt to add with overflow", log |-> {}]
    ELSE IF ~HeightAccepted(block.height, st.last_block_height, checked)
    THEN [st |-> st, res |-> "unexpected block height", log |-> {}]
    ELSE
    LET f == ScanFragments(st, block.fragments, 1) IN
    IF f.err # "none" THEN [st |-> f.st, res |-> f.err, log |-> {}]
    ELSE
    LET n == ScanNullifiers([st |-> f.st, log |-> {}], block.nullifiers, 1)
    IN  [st  |-> [n.st EXCEPT !.last_block_height = Some(block.height)],
         res |-> "Ok",
         log |-> n.log]

\* The state between the two loops of scan_block (after line 331): the state
\* the nullifier loop starts from, or the state left by the early return.
ScanBlockMid(st, block, checked) ==
    IF ~HeightAccepted(block.height, st.last_block_height, checked) THEN st
    ELSE ScanFragments(st, block.fragments, 1).st

(***************************************************************************)
(* add_asset_to_registry (state.rs 252-260)                                 *)
(***************************************************************************)
AddAssetToRegistry(st, asset_id, asset_denom) ==
    [st EXCEPT !.asset_registry = MapInsert(@, asset_id, asset_denom)]

(***************************************************************************)
(* Unspent-note views (state.rs 198-249).                                   *)
(***************************************************************************)
\* IncomingViewingKey::index_for_diversifier
index_for_diversifier(d) == IF d = "d0" THEN 0 ELSE 1

\* The keys of a BTreeMap in iteration (ascending) order.
RECURSIVE SortedSeq(_)
SortedSeq(S) ==
    IF S = {} THEN << >>
    ELSE LET m == CHOOSE x \in S : \A y \in S : x <= y
         IN  << m >> \o SortedSeq(S \ {m})

\* unspent_notes: (index, denom, note) triples in key order; the expect on the
\* registry lookup panics on an asset id without a denomination.
unspent_notes(st) ==
    LET keys == SortedSeq(DOMAIN st.unspent_set)
        missing == \E c \in DOMAIN st.unspent_set :
                      ~ContainsKey(st.asset_registry, st.unspent_set[c].asset_id)
    IN  IF missing THEN [panic |-> TRUE, items |-> << >>]
        ELSE [panic |-> FALSE,
              items |-> [i \in 1 .. Len(keys) |->
                           LET note == st.unspent_set[keys[i]]
                           IN  [index |-> index_for_diversifier(note.diversifier),
                                denom |-> st.asset_registry[note.asset_id],
                                note  |-> note]]]

NotesOf(items) == [i \in 1 .. Len(items) |-> items[i].note]

\* unspent_notes_by_denom_and_address: denom -> (address index -> notes)
unspent_notes_by_denom_and_address(items) ==
    [d \in {items[i].denom : i \in 1 .. Len(items)} |->
       [a \in {items[i].index : i \in {j \in 1 .. Len(items) : items[j].denom = d}} |->
          NotesOf(SelectSeq(items, LAMBDA it : it.denom = d /\ it.index = a))]]

\* unspent_notes_by_address_and_denom: address index -> (denom -> notes)
unspent_notes_by_address_and_denom(items) ==
    [a \in {items[i].index : i \in 1 .. Len(items)} |->
       [d \in {items[i].denom : i \in {j \in 1 .. Len(items) : items[j].index = a}} |->
          NotesOf(SelectSeq(items, LAMBDA it : it.denom = d /\ it.index = a))]]

\* notes_by_address.values().flatten(): address order, then key order.
RECURSIVE FlattenValues(_, _, _)
FlattenValues(m, keys, i) ==
    IF i > Len(keys) THEN << >>
    ELSE m[keys[i]] \o FlattenValues(m, keys, i + 1)

(***************************************************************************)
(* new_transaction (state.rs 73-195).                                       *)
(***************************************************************************)
Modulus == 2 ^ WordBits

\* u64 addition and subtraction: the wrapped value and whether it overflowed.
\* With overflow checks compiled in the overflow is a panic, without them the
\* wrapped value is used.
U64Add(a, b) == [v |-> (a + b) % Modulus, overflow |-> a + b >= Modulus]
U64Sub(a, b) == [v |-> (a - b) % Modulus, overflow |-> a < b]

\* The wallet's addresses (Wallet::address_by_index fails on any other index).
WalletAddresses == {0, 1}

\* The candidate notes of lines 93-108: the error of the lookup, or the list.
Candidates(st, denomination, source_address) ==
    LET un == unspent_notes(st) IN
    IF un.panic THEN [err |-> "panic: all asset IDs should have denominations stored locally",
                      notes |-> << >>]
    ELSE
    LET by_denom == unspent_notes_by_denom_and_address(un.items) IN
    IF ~ContainsKey(by_denom, denomination)
    THEN [err |-> "no notes of denomination", notes |-> << >>]
    ELSE
    LET notes_by_address == by_denom[denomination] IN
    IF IsSome(source_address)
    THEN IF ~ContainsKey(notes_by_address, Unwrap(source_address))
         THEN [err |-> "no notes of denomination in address", notes |-> << >>]
         ELSE [err |-> "none", notes |-> notes_by_address[Unwrap(source_address)]]
    ELSE [err |-> "none",
          notes |-> FlattenValues(notes_by_address,
                                  SortedSeq(DOMAIN notes_by_address), 1)]

\* notes.shuffle(rng): the rng picks a permutation of the positions.
Shuffle(notes, perm) == [i \in 1 .. Len(notes) |-> notes[perm[i]]]

Perms(n) == {p \in [1 .. n -> 1 .. n] : \A i, j \in 1 .. n : p[i] = p[j] => i = j}

\* The selection loop of lines 112-121.
RECURSIVE SelectNotes(_, _, _, _, _, _, _)
SelectNotes(notes, i, notes_to_spend, total_spend_value, amount, fee, checked) ==
    IF i > Len(notes)
    THEN [panic |-> FALSE, notes_to_spend |-> notes_to_spend,
          total_spend_value |-> total_spend_value]
    ELSE
    LET pushed == Append(notes_to_spend, notes[i])
        total  == U64Add(total_spend_value, notes[i].amount)
        need   == U64Add(amount, fee)
    IN
    IF checked /\ (total.overflow \/ need.overflow)
    THEN [panic |-> TRUE, notes_to_spend |-> pushed, total_spend_value |-> total.v]
    ELSE IF total.v >= need.v
    THEN [panic |-> FALSE, notes_to_spend |-> pushed, total_spend_value |-> total.v]
    ELSE SelectNotes(notes, i + 1, pushed, total.v, amount, fee, checked)

\* The shape of every result of new_transaction.
TxResult(kind, msg) ==
    [kind |-> kind, msg |-> msg, need |-> 0, have |-> 0,
     spends |-> << >>, output |-> None, change |-> None, fee |-> 0, args |-> None]
TxPanic(msg) == TxResult("panic", msg)
TxErr(msg) == TxResult("Err", msg)

\* Lines 123-195, entered with the notes selected and their total.
AssembleTransaction(st, sel, amount, address, fee, change_address, checked, finalize_ok) ==
    LET notes_to_spend == sel.notes_to_spend
        total_spend_value == sel.total_spend_value
        need == U64Add(amount, fee)
    IN
    IF ~IsSome(change_address) /\ Len(notes_to_spend) = 0
    THEN TxPanic("spent at least one note")
    ELSE
    LET change_index ==
            IF IsSome(change_address) THEN Unwrap(change_address)
            ELSE index_for_diversifier(notes_to_spend[Len(notes_to_spend)].diversifier)
    IN
    IF checked /\ need.overflow THEN TxPanic("attempt to add with overflow")
    ELSE IF total_spend_value < need.v
    THEN [TxErr("insufficient balance") EXCEPT !.need = need.v, !.have = total_spend_value]
    ELSE IF \E i \in 1 .. Len(notes_to_spend) :
              ~IsSome(authentication_path(st.note_commitment_tree, notes_to_spend[i].commit))
    THEN TxPanic("called Option::unwrap() on a None value")
    ELSE IF change_index \notin WalletAddresses
    THEN TxErr("no address with this index")
    ELSE
    LET d1 == U64Sub(total_spend_value, amount)
        d2 == U64Sub(d1.v, fee)
    IN
    IF checked /\ (d1.overflow \/ d2.overflow)
    THEN TxPanic("attempt to subtract with overflow")
    ELSE IF ~finalize_ok THEN TxErr("error during transaction finalization")
    ELSE [TxResult("Ok", "") EXCEPT
            !.spends = notes_to_spend,
            !.output = Some([address |-> address,
                             amount |-> amount,
                             asset_id |-> notes_to_spend[1].asset_id]),
            !.change = Some([address |-> change_index,
                             amount |-> d2.v,
                             asset_id |-> notes_to_spend[1].asset_id]),
            !.fee = fee]

\* new_transaction: rng is the permutation the shuffle draws, checked says
\* whether the build has overflow checks, finalize_ok whether the builder's
\* finalize succeeds.
NewTransaction(st, rng, amount, denomination, address, fee, change_address, source_address, checked, finalize_ok) ==
    IF address # "valid address" THEN TxErr("address is invalid")
    ELSE
    LET cand == Candidates(st, denomination, source_address) IN
    IF cand.err # "none"
    THEN IF cand.err = "panic: all asset IDs should have denominations stored locally"
         THEN TxPanic(cand.err) ELSE TxErr(cand.err)
    ELSE
    LET notes == Shuffle(cand.notes, rng)
        sel   == SelectNotes(notes, 1, << >>, 0, amount, fee, checked)
    IN
    IF sel.panic THEN TxPanic("attempt to add with overflow")
    ELSE AssembleTransaction(st, sel, amount, address, fee, change_address,
                             checked, finalize_ok)

\* Variant: the notes selected for spending are moved to the spent set at once.
RECURSIVE MarkSpent(_, _, _)
MarkSpent(st, spends, i) ==
    IF i > Len(spends) THEN st
    ELSE MarkSpent([st EXCEPT !.unspent_set = MapRemove(@, spends[i].commit),
                              !.spent_set = MapInsert(@, spends[i].commit, spends[i])],
                   spends, i + 1)
NewTransactionStateMarksSpent(st, result) == MarkSpent(st, result.spends, 1)

\* The state new_transaction leaves behind: lines 73-195 assign no field of self.
NewTransactionState(st, result) == st

(***************************************************************************)
(* serde_helpers (state.rs 380-491): the persisted form ClientStateHelper   *)
(* and the two conversions.  Byte strings are sequences of numbers below    *)
(* 256, hex strings sequences of hex digits.                                *)
(***************************************************************************)
HexDigits == << "0", "1", "2", "3", "4", "5", "6", "7",
                "8", "9", "a", "b", "c", "d", "e", "f" >>

\* hex::encode: two digits per byte, high nibble first.
RECURSIVE HexEncode(_)
HexEncode(bytes) ==
    IF bytes = << >> THEN << >>
    ELSE << HexDigits[(Head(bytes) \div 16) + 1], HexDigits[(Head(bytes) % 16) + 1] >>
           \o HexEncode(Tail(bytes))

\* hex::decode reads the digits a-f in either case; hex::encode writes the
\* lower-case ones.
HexDigitsUpper == << "0", "1", "2", "3", "4", "5", "6", "7",
                     "8", "9", "A", "B", "C", "D", "E", "F" >>

IsHexDigit(d) == \E i \in 1 .. 16 : HexDigits[i] = d \/ HexDigitsUpper[i] = d

HexValue(d) == (CHOOSE i \in 1 .. 16 : HexDigits[i] = d \/ HexDigitsUpper[i] = d) - 1

\* hex::decode: fails on an odd length or on a character that is no hex digit.
RECURSIVE HexDecode(_)
HexDecode(str) ==
    IF str = << >> THEN Some(<< >>)
    ELSE IF Len(str) < 2 THEN None
    ELSE IF \E k \in 1 .. 2 : ~IsHexDigit(str[k]) THEN None
    ELSE LET rest == HexDecode(SubSeq(str, 3, Len(str)))
         IN  IF ~IsSome(rest) THEN None
             ELSE Some(<< 16 * HexValue(str[1]) + HexValue(str[2]) >> \o Unwrap(rest))

\* note::Commitment, Nullifier and asset::Id: to_bytes and TryFrom<&[u8]>.
CommitmentToBytes(c) == << c >>
CommitmentFromBytes(bytes) ==
    IF Len(bytes) = 1 /\ bytes[1] \in Commitments THEN Some(bytes[1]) ELSE None

NullifierToBytes(nf) == << nf[1], nf[2] >>
NullifierFromBytes(bytes) ==
    IF Len(bytes) = 2 /\ bytes[2] \in Commitments THEN Some(<< bytes[1], bytes[2] >>)
    ELSE None

AssetIdToBytes(id) == << id >>
AssetIdFromBytes(bytes) ==
    IF Len(bytes) = 1 /\ bytes[1] \in AssetIds THEN Some(bytes[1]) ELSE None

\* Note::to_bytes and TryFrom<&[u8]> for Note.
NoteToBytes(note) ==
    << index_for_diversifier(note.diversifier), note.amount, note.asset_id, note.commit >>
NoteFromBytes(bytes) ==
    IF /\ Len(bytes) = 4
       /\ bytes[1] \in {0, 1}
       /\ bytes[3] \in AssetIds
       /\ bytes[4] \in Commitments
    THEN Some([asset_id |-> bytes[3], amount |-> bytes[2],
               diversifier |-> IF bytes[1] = 0 THEN "d0" ELSE "d1",
               commit |-> bytes[4]])
    ELSE None

\* bincode::serialize / deserialize of the tree: the checkpoint bound, the leaf
\* count, the leaves, and one flag per leaf saying whether it is witnessed.
TreeToBytes(tree) ==
    << tree.max_checkpoints, Len(tree.leaves) >>
      \o tree.leaves
      \o [i \in 1 .. Len(tree.leaves) |-> IF (i - 1) \in tree.witnessed THEN 1 ELSE 0]
TreeFromBytes(bytes) ==
    IF Len(bytes) < 2 \/ Len(bytes) # 2 + 2 * bytes[2] THEN None
    ELSE LET n == bytes[2] IN
         Some([leaves |-> [i \in 1 .. n |-> bytes[2 + i]],
               witnessed |-> {p \in 0 .. n - 1 : bytes[2 + n + p + 1] = 1},
               max_checkpoints |-> bytes[1]])

\* The order of the Nullifier keys of a BTreeMap, and its iteration order.
NullifierLess(a, b) == a[1] < b[1] \/ (a[1] = b[1] /\ a[2] < b[2])

RECURSIVE SortedNullifiers(_)
SortedNullifiers(S) ==
    IF S = {} THEN << >>
    ELSE LET m == CHOOSE x \in S : \A y \in S : x = y \/ NullifierLess(x, y)
         IN  << m >> \o SortedNullifiers(S \ {m})

\* Variant: the spent notes are left out of the persisted form.
ClientStateHelper_from_DropsSpent(state) ==
    LET nfs == SortedNullifiers(DOMAIN state.nullifier_map)
        ucs == SortedSeq(DOMAIN state.unspent_set)
        ids == SortedSeq(DOMAIN state.asset_registry)
    IN  [last_block_height |-> state.last_block_height,
         note_commitment_tree |-> TreeToBytes(state.note_commitment_tree),
         nullifier_map |-> [i \in 1 .. Len(nfs) |->
             << HexEncode(NullifierToBytes(nfs[i])),
                HexEncode(CommitmentToBytes(state.nullifier_map[nfs[i]])) >>],
         unspent_set |-> [i \in 1 .. Len(ucs) |->
             << HexEncode(CommitmentToBytes(ucs[i])),
                HexEncode(NoteToBytes(state.unspent_set[ucs[i]])) >>],
         spent_set |-> << >>,
         asset_registry |-> [i \in 1 .. Len(ids) |->
             << HexEncode(AssetIdToBytes(ids[i])), state.asset_registry[ids[i]] >>],
         transactions |-> << >>]

\* impl From<ClientState> for ClientStateHelper (lines 399-444).
ClientStateHelper_from(state) ==
    LET nfs == SortedNullifiers(DOMAIN state.nullifier_map)
        ucs == SortedSeq(DOMAIN state.unspent_set)
        scs == SortedSeq(DOMAIN state.spent_set)
        ids == SortedSeq(DOMAIN state.asset_registry)
    IN  [last_block_height |-> state.last_block_height,
         note_commitment_tree |-> TreeToBytes(state.note_commitment_tree),
         nullifier_map |-> [i \in 1 .. Len(nfs) |->
             << HexEncode(NullifierToBytes(nfs[i])),
                HexEncode(CommitmentToBytes(state.nullifier_map[nfs[i]])) >>],
         unspent_set |-> [i \in 1 .. Len(ucs) |->
             << HexEncode(CommitmentToBytes(ucs[i])),
                HexEncode(NoteToBytes(state.unspent_set[ucs[i]])) >>],
         spent_set |-> [i \in 1 .. Len(scs) |->
             << HexEncode(CommitmentToBytes(scs[i])),
                HexEncode(NoteToBytes(state.spent_set[scs[i]])) >>],
         asset_registry |-> [i \in 1 .. Len(ids) |->
             << HexEncode(AssetIdToBytes(ids[i])), state.asset_registry[ids[i]] >>],
         transactions |-> << >>]

\* hex::decode(..)?.as_slice().try_into()?: None on either failure.
DecodeNullifierHex(str) ==
    LET bytes == HexDecode(str)
    IN  IF ~IsSome(bytes) THEN None ELSE NullifierFromBytes(Unwrap(bytes))
DecodeCommitmentHex(str) ==
    LET bytes == HexDecode(str)
    IN  IF ~IsSome(bytes) THEN None ELSE CommitmentFromBytes(Unwrap(bytes))
DecodeNoteHex(str) ==
    LET bytes == HexDecode(str)
    IN  IF ~IsSome(bytes) THEN None ELSE NoteFromBytes(Unwrap(bytes))
DecodeAssetIdHex(str) ==
    LET bytes == HexDecode(str)
    IN  IF ~IsSome(bytes) THEN None ELSE AssetIdFromBytes(Unwrap(bytes))

\* One rebuilding loop of try_from over the decoded << key, value >> pairs:
\* the map, or None on the first decode failure.
RECURSIVE InsertDecoded(_, _, _)
InsertDecoded(decoded, i, map) ==
    IF i > Len(decoded) THEN Some(map)
    ELSE IF ~IsSome(decoded[i][1]) \/ ~IsSome(decoded[i][2]) THEN None
    ELSE InsertDecoded(decoded, i + 1,
                       MapInsert(map, Unwrap(decoded[i][1]), Unwrap(decoded[i][2])))

\* impl TryFrom<ClientStateHelper> for ClientState (lines 446-491).
ClientState_try_from(helper) ==
    LET nullifier_map_r ==
            InsertDecoded([i \in 1 .. Len(helper.nullifier_map) |->
                             << DecodeNullifierHex(helper.nullifier_map[i][1]),
                                DecodeCommitmentHex(helper.nullifier_map[i][2]) >>],
                          1, EmptyMap)
        unspent_set_r ==
            InsertDecoded([i \in 1 .. Len(helper.unspent_set) |->
                             << DecodeCommitmentHex(helper.unspent_set[i][1]),
                                DecodeNoteHex(helper.unspent_set[i][2]) >>],
                          1, EmptyMap)
        spent_set_r ==
            InsertDecoded([i \in 1 .. Len(helper.spent_set) |->
                             << DecodeCommitmentHex(helper.spent_set[i][1]),
                                DecodeNoteHex(helper.spent_set[i][2]) >>],
                          1, EmptyMap)
        asset_registry_r ==
            InsertDecoded([i \in 1 .. Len(helper.asset_registry) |->
                             << DecodeAssetIdHex(helper.asset_registry[i][1]),
                                Some(helper.asset_registry[i][2]) >>],
                          1, EmptyMap)
        tree_r == TreeFromBytes(helper.note_commitment_tree)
    IN  IF \/ ~IsSome(nullifier_map_r) \/ ~IsSome(unspent_set_r) \/ ~IsSome(spent_set_r)
           \/ ~IsSome(asset_registry_r) \/ ~IsSome(tree_r)
        THEN [ok |-> FALSE, st |-> ClientState_new]
        ELSE [ok |-> TRUE,
              st |-> [last_block_height |-> helper.last_block_height,
                      note_commitment_tree |-> Unwrap(tree_r),
                      nullifier_map |-> Unwrap(nullifier_map_r),
                      unspent_set |-> Unwrap(unspent_set_r),
                      spent_set |-> Unwrap(spent_set_r),
                      transactions |-> EmptyMap,
                      asset_registry |-> Unwrap(asset_registry_r)]]

(***************************************************************************)
(* The state machine.  The first seven variables are the fields of          *)
(* ClientState (the wallet's keys are fixed); ret records the last call and *)
(* what it returned, accepted the heights of the blocks scanned with        *)
(* success so far, failed whether some scan_block call has returned an      *)
(* error, tx the result of the last new_transaction.  hist is the history   *)
(* of the scans: ever_unspent collects every commitment that has been a key *)
(* of unspent_set at some point of an execution (between the two loops of   *)
(* scan_block included); under HistSpec nfrag counts the fragments of the   *)
(* blocks accepted so far, and pre and block, kept when recorded is set,    *)
(* are the state the last scan_block call started from and the block it     *)
(* was given.                                                               *)
(***************************************************************************)
VARIABLES last_block_height, note_commitment_tree, nullifier_map, unspent_set,
          spent_set, transactions, asset_registry, ret, accepted, failed, tx, hist

state_vars == << last_block_height, note_commitment_tree, nullifier_map,
                 unspent_set, spent_set, transactions, asset_registry >>
vars == << last_block_height, note_commitment_tree, nullifier_map, unspent_set,
           spent_set, transactions, asset_registry, ret, accepted, failed, tx, hist >>

State ==
    [last_block_height |-> last_block_height,
     note_commitment_tree |-> note_commitment_tree,
     nullifier_map |-> nullifier_map,
     unspent_set |-> unspent_set,
     spent_set |-> spent_set,
     transactions |-> transactions,
     asset_registry |-> asset_registry]

SetState(s) ==
    /\ last_block_height' = s.last_block_height
    /\ note_commitment_tree' = s.note_commitment_tree
    /\ nullifier_map' = s.nullifier_map
    /\ unspent_set' = s.unspent_set
    /\ spent_set' = s.spent_set
    /\ transactions' = s.transactions
    /\ asset_registry' = s.asset_registry

Call(op, height, res, log) == [op |-> op, height |-> height, res |-> res, log |-> log]

NoTx == TxResult("none", "")

CompactBlock(height, fragments, nullifiers) ==
    [height |-> height, fragments |-> fragments, nullifiers |-> nullifiers]

NoHist ==
    [recorded |-> FALSE, pre |-> ClientState_new,
     block |-> CompactBlock(0, << >>, << >>), checked |-> TRUE,
     nfrag |-> 0, ever_unspent |-> {}]

\* The history after scan_block ran on block from state st and returned res.
ScanHistory(h, st, block, checked, res, counted, recorded) ==
    [recorded |-> recorded,
     pre |-> IF recorded THEN st ELSE h.pre,
     block |-> IF recorded THEN block ELSE h.block,
     checked |-> IF recorded THEN checked ELSE h.checked,
     nfrag |-> IF counted /\ res = "Ok" THEN h.nfrag + Len(block.fragments) ELSE h.nfrag,
     ever_unspent |-> h.ever_unspent \cup DOMAIN ScanBlockMid(st, block, checked).unspent_set]

Init ==
    /\ last_block_height = ClientState_new.last_block_height
    /\ note_commitment_tree = ClientState_new.note_commitment_tree
    /\ nullifier_map = ClientState_new.nullifier_map
    /\ unspent_set = ClientState_new.unspent_set
    /\ spent_set = ClientState_new.spent_set
    /\ transactions = ClientState_new.transactions
    /\ asset_registry = ClientState_new.asset_registry
    /\ ret = Call("new", 0, "Ok", {})
    /\ accepted = << >>
    /\ failed = FALSE
    /\ tx = NoTx
    /\ hist = NoHist

(***************************************************************************)
(* The blocks offered to scan_block.                                        *)
(***************************************************************************)
Fragment(bytes, epk, ours, note) ==
    [note_commitment |-> bytes, ephemeral_key |-> epk,
     encrypted_note |-> [ours |-> ours, note |-> note]]

\* For each commitment: a note of ours, a note of somebody else, a fragment
\* with a garbled ephemeral key; and a fragment with a garbled commitment.
FragmentsOver(C) ==
    {Fragment(c, "epk", TRUE, NoteOf(c)) : c \in C}
      \cup {Fragment(c, "epk", FALSE, NoteOf(c)) : c \in C}
      \cup {Fragment(c, "garbage", TRUE, NoteOf(c)) : c \in C}
      \cup {Fragment(BadBytes, "epk", TRUE, NoteOf(1))}

NullifierBytes(nf) == [canonical |-> TRUE, nf |-> nf]
GarbledNullifier == [canonical |-> FALSE, nf |-> << 0, 0 >>]

NullifiersOver(C) ==
    {NullifierBytes(derive_nullifier(p, c)) : p \in 0 .. MaxLeaves - 1, c \in C}
      \cup {GarbledNullifier}

\* The shapes of the blocks offered: << number of fragments, number of nullifiers >>.
BlockShapes == {<< 0, 0 >>, << 1, 0 >>, << 0, 1 >>, << 2, 0 >>, << 1, 1 >>, << 0, 2 >>}

SeqsOfLen(S, n) == [1 .. n -> S]

(***************************************************************************)
(* Actions: one per public operation of ClientState.                        *)
(***************************************************************************)
\* Every block of a shape is offered at the height scan_block expects; at the
\* other heights, where lines 280-284 return or panic before the block is
\* read, one block of each shape (notes of ours, their nullifiers) is offered.
OfferedFragments(height, n, checked) ==
    IF HeightAccepted(height, last_block_height, checked)
    THEN SeqsOfLen(FragmentsOver(ScanCommitments), n)
    ELSE SeqsOfLen({Fragment(1, "epk", TRUE, NoteOf(1))}, n)

OfferedNullifiers(height, n, checked) ==
    IF HeightAccepted(height, last_block_height, checked)
    THEN SeqsOfLen(NullifiersOver(ScanCommitments), n)
    ELSE SeqsOfLen({NullifierBytes(derive_nullifier(0, 1))}, n)

\* The builds offered: with and without overflow checks where line 282
\* overflows, one build where the two behave alike.
OverflowChecks ==
    IF IsSome(last_block_height) /\ U32Add(Unwrap(last_block_height), 1).overflow
    THEN BOOLEAN ELSE {TRUE}

\* One call of scan_block on block; counted and recorded say what hist keeps.
ScanCall(block, checked, counted, recorded) ==
    \E r \in {ScanBlock(State, block, checked)} :
        /\ SetState(r.st)
        /\ ret' = Call("scan_block", block.height, r.res, r.log)
        /\ accepted' = IF r.res = "Ok" THEN Append(accepted, block.height)
                        ELSE accepted
        /\ failed' = (failed \/ r.res # "Ok")
        /\ tx' = tx
        /\ hist' = ScanHistory(hist, State, block, checked, r.res, counted, recorded)

scan_block ==
    \E height \in 0 .. MaxHeight, shape \in BlockShapes, checked \in OverflowChecks :
        /\ Len(accepted) <= MaxHeight + 1
        /\ Len(note_commitment_tree.leaves) + shape[1] <= MaxLeaves
        /\ \E fragments \in OfferedFragments(height, shape[1], checked),
              nullifiers \in OfferedNullifiers(height, shape[2], checked) :
            ScanCall(CompactBlock(height, fragments, nullifiers), checked, FALSE, FALSE)

add_asset_to_registry ==
    \E asset_id \in AssetIds, asset_denom \in Denoms :
        /\ SetState(AddAssetToRegistry(State, asset_id, asset_denom))
        /\ ret' = Call("add_asset_to_registry", 0, "Ok", {})
        /\ UNCHANGED << accepted, failed, tx, hist >>

new_transaction ==
    \E amount \in {1, Modulus - 1}, fee \in {1},
       denomination \in Denoms,
       address \in {"valid address"},
       change_address \in {None},
       source_address \in {None},
       checked \in BOOLEAN, finalize_ok \in {TRUE} :
        \E rng \in Perms(Len(Candidates(State, denomination, source_address).notes)) :
            \E r \in {NewTransaction(State, rng, amount, denomination, address, fee,
                                     change_address, source_address, checked, finalize_ok)} :
                /\ SetState(NewTransactionState(State, r))
                /\ ret' = Call("new_transaction", 0, r.kind, {})
                /\ UNCHANGED << accepted, failed, tx, hist >>

Next == scan_block \/ add_asset_to_registry \/ new_transaction

Spec == Init /\ [][Next]_vars

(***************************************************************************)
(* The transaction assembler on its own: TxSpec starts in a state reached   *)
(* by scanning one block of notes of ours and registering assets, and       *)
(* applies new_transaction once to inputs drawn from the whole u64 range of *)
(* the model; tx records the arguments beside the result.                   *)
(***************************************************************************)
RECURSIVE RegisterAll(_, _)
RegisterAll(st, assets) ==
    IF assets = {} THEN st
    ELSE LET a == CHOOSE x \in assets : TRUE
         IN  RegisterAll(AddAssetToRegistry(st, a, DenomOf(a)), assets \ {a})

OurFragments(keys) ==
    [i \in 1 .. Len(keys) |-> Fragment(keys[i], "epk", TRUE, NoteOf(keys[i]))]

TxInit ==
    \E C \in SUBSET Commitments, registered \in {AssetIds, {1}} :
        LET r == ScanBlock(ClientState_new,
                           CompactBlock(0, OurFragments(SortedSeq(C)), << >>), TRUE)
            s == RegisterAll(r.st, registered)
        IN  /\ last_block_height = s.last_block_height
            /\ note_commitment_tree = s.note_commitment_tree
            /\ nullifier_map = s.nullifier_map
            /\ unspent_set = s.unspent_set
            /\ spent_set = s.spent_set
            /\ transactions = s.transactions
            /\ asset_registry = s.asset_registry
            /\ ret = Call("scan_block", 0, r.res, r.log)
            /\ accepted = << 0 >>
            /\ failed = FALSE
            /\ tx = NoTx
            /\ hist = ScanHistory(NoHist, ClientState_new,
                                  CompactBlock(0, OurFragments(SortedSeq(C)), << >>),
                                  TRUE, r.res, FALSE, FALSE)

TxNewTransaction ==
    /\ tx = NoTx
    /\ \E amount \in 0 .. Modulus - 1, fee \in 0 .. Modulus - 1,
          denomination \in Denoms,
          address \in {"valid address", "garbage"},
          change_address \in {None, Some(1), Some(2)},
          source_address \in {None, Some(0), Some(1)},
          checked \in BOOLEAN, finalize_ok \in BOOLEAN :
        \E rng \in Perms(Len(Candidates(State, denomination, source_address).notes)) :
            \E r \in {NewTransaction(State, rng, amount, denomination, address, fee,
                                     change_address, source_address, checked, finalize_ok)} :
                /\ SetState(NewTransactionState(State, r))
                /\ ret' = Call("new_transaction", 0, r.kind, {})
                /\ tx' = [r EXCEPT !.args =
                            Some([amount |-> amount, fee |-> fee,
                                  denomination |-> denomination, address |-> address,
                                  change_address |-> change_address,
                                  source_address |-> source_address,
                                  rng |-> rng, checked |-> checked,
                                  finalize_ok |-> finalize_ok])]
                /\ UNCHANGED << accepted, failed, hist >>

TxNext == TxNewTransaction

TxSpec == TxInit /\ [][TxNext]_vars

(***************************************************************************)
(* One scan_block call on its own: HistSpec reaches a state by scan_block   *)
(* calls, then takes one more scan_block step that keeps in hist the state  *)
(* the call started from and the block it was given.                        *)
(***************************************************************************)
scan_block_counted ==
    /\ ~hist.recorded
    /\ \E height \in 0 .. MaxHeight, shape \in BlockShapes, checked \in OverflowChecks :
        /\ Len(accepted) <= MaxHeight + 1
        /\ Len(note_commitment_tree.leaves) + shape[1] <= MaxLeaves
        /\ \E fragments \in OfferedFragments(height, shape[1], checked),
              nullifiers \in OfferedNullifiers(height, shape[2], checked) :
            ScanCall(CompactBlock(height, fragments, nullifiers), checked, TRUE, FALSE)

scan_block_recorded ==
    /\ ~hist.recorded
    /\ \E height \in 0 .. MaxHeight, shape \in BlockShapes, checked \in OverflowChecks :
        /\ Len(accepted) <= MaxHeight + 1
        /\ Len(note_commitment_tree.leaves) + shape[1] <= MaxLeaves
        /\ \E fragments \in OfferedFragments(height, shape[1], checked),
              nullifiers \in OfferedNullifiers(height, shape[2], checked) :
            ScanCall(CompactBlock(height, fragments, nullifiers), checked, TRUE, TRUE)

HistNext == scan_block_counted \/ scan_block_recorded

HistSpec == Init /\ [][HistNext]_vars

(***************************************************************************)
(* Properties.                                                              *)
(***************************************************************************)
Received == (DOMAIN unspent_set) \cup (DOMAIN spent_set)

RECURSIVE SumAmounts(_)
SumAmounts(notes) ==
    IF notes = << >> THEN 0 ELSE Head(notes).amount + SumAmounts(Tail(notes))

\* A step of scan_block: the only action that leaves ret.op = "scan_block"
\* behind while changing some variable.
ScanStep == ret'.op = "scan_block"

\* C1: scan_block accepts a block only if (height = 0 and last_block_height is
\* absent) or (height = last_block_height + 1); on every other combination it
\* returns the unexpected-height error and leaves every field of the state as
\* it was.
C1_HeightPrecondition ==
    [][ScanStep =>
         LET fits == \/ ret'.height = 0 /\ last_block_height = None
                     \/ /\ last_block_height # None
                        /\ ret'.height = last_block_height[1] + 1
         IN  /\ ret'.res = "Ok" => fits
             /\ ~fits => /\ ret'.res = "unexpected block height"
                         /\ UNCHANGED state_vars]_vars

\* C2: whenever scan_block returns an error because a fragment's commitment or
\* ephemeral key does not decode, the tree, nullifier_map, unspent_set,
\* spent_set and last_block_height are what they were before the call.
C2_AtomicPerBlock ==
    [][(ScanStep /\ ret'.res \in {"invalid note commitment", "invalid ephemeral key"})
         => UNCHANGED << note_commitment_tree, nullifier_map, unspent_set,
                         spent_set, last_block_height >>]_vars

\* C3: after any sequence of successful scan_block calls no commitment is a
\* key of both unspent_set and spent_set.
C3_Disjoint ==
    ~failed => (DOMAIN unspent_set) \cap (DOMAIN spent_set) = {}

\* C4: after any sequence of successful scan_block calls every commitment in
\* unspent_set or spent_set has exactly one nullifier mapped to it, and that
\* nullifier is the one derived from the commitment's tree position.
C4_OneNullifier ==
    ~failed =>
      \A c \in Received :
        LET nus == {nu \in DOMAIN nullifier_map : nullifier_map[nu] = c}
            path == authentication_path(note_commitment_tree, c)
        IN  /\ Cardinality(nus) = 1
            /\ IsSome(path)
            /\ nus = {derive_nullifier(Unwrap(path), c)}

\* C5: at the end of every successful scan_block every note in unspent_set or
\* spent_set has its asset id in asset_registry, so unspent_notes does not fail.
C5_AssetsRegistered ==
    (ret.op = "scan_block" /\ ret.res = "Ok") =>
      /\ \A c \in DOMAIN unspent_set : ContainsKey(asset_registry, unspent_set[c].asset_id)
      /\ \A c \in DOMAIN spent_set : ContainsKey(asset_registry, spent_set[c].asset_id)
      /\ ~unspent_notes(State).panic

\* C6: every commitment that is a key of unspent_set or spent_set is a leaf of
\* the tree at a witnessed position, and authentication_path finds it.
C6_Witnessed ==
    \A c \in Received :
      /\ \E p \in note_commitment_tree.witnessed :
            /\ p < Len(note_commitment_tree.leaves)
            /\ note_commitment_tree.leaves[p + 1] = c
      /\ IsSome(authentication_path(note_commitment_tree, c))

\* C6 witness: one note is unspent and another has been spent.
C6_Witness ==
    /\ unspent_set # EmptyMap
    /\ spent_set # EmptyMap
    /\ (DOMAIN unspent_set) \cap (DOMAIN spent_set) = {}

\* C7: last_block_height is absent exactly when no scan has succeeded, else it
\* is the height of the last successful scan; the accepted heights are
\* 0, 1, 2, ... without gap or repetition (so the last is the greatest), and a
\* failed scan leaves last_block_height alone.
C7_HeightTracksAccepted ==
    /\ (last_block_height = None) <=> (accepted = << >>)
    /\ accepted # << >> => last_block_height = Some(accepted[Len(accepted)])
    /\ \A i \in 1 .. Len(accepted) : accepted[i] = i - 1

\* C8: new_transaction changes no field of the state, whatever it returns.
C8_NewTransactionFrame ==
    [][ret'.op = "new_transaction" => UNCHANGED state_vars]_vars

\* C8 witness: new_transaction returned a transaction spending a note that is
\* still unspent.
C8_Witness ==
    /\ ret.op = "new_transaction"
    /\ ret.res = "Ok"
    /\ unspent_set # EmptyMap

\* C9: whenever new_transaction returns a transaction, the amounts of the notes
\* it spends sum to amount + fee + change, computed without wrap-around.
C9_Balance ==
    tx.kind = "Ok" =>
      SumAmounts(tx.spends) = tx.output[1].amount + tx.fee + tx.change[1].amount

\* C10: when the candidate notes sum to less than amount + fee, new_transaction
\* fails with the insufficient-balance error, need = amount + fee and have =
\* the sum of all candidates; a transaction is returned only when the selected
\* total is at least amount + fee.
C10_InsufficientBalance ==
    (tx.args # None /\ tx.args[1].address = "valid address") =>
      LET a == tx.args[1]
          cand == Candidates(State, a.denomination, a.source_address)
      IN  cand.err = "none" =>
            /\ SumAmounts(cand.notes) < a.amount + a.fee =>
                 /\ tx.kind = "Err"
                 /\ tx.msg = "insufficient balance"
                 /\ tx.need = a.amount + a.fee
                 /\ tx.have = SumAmounts(cand.notes)
            /\ tx.kind = "Ok" => SumAmounts(tx.spends) >= a.amount + a.fee

(***************************************************************************)
(* The recorded call of HistSpec: the state between its two loops and the   *)
(* state in which its i-th nullifier is processed.                          *)
(***************************************************************************)
RecordedOk == hist.recorded /\ ret.res = "Ok"

Mid == ScanBlockMid(hist.pre, hist.block, hist.checked)

BeforeNullifier(i) ==
    ScanNullifiers([st |-> Mid, log |-> {}], SubSeq(hist.block.nullifiers, 1, i - 1), 1).st

\* The nullifiers of the recorded block that decode to a nullifier of a note
\* that is unspent when they are processed.
SpendingNullifiers ==
    {i \in 1 .. Len(hist.block.nullifiers) :
        LET bytes == hist.block.nullifiers[i]
            b == BeforeNullifier(i)
        IN  /\ IsSome(DecodeNullifier(bytes))
            /\ ContainsKey(b.nullifier_map, Unwrap(DecodeNullifier(bytes)))
            /\ ContainsKey(b.unspent_set, b.nullifier_map[Unwrap(DecodeNullifier(bytes))])}

\* C11: when a successfully scanned block lists a nullifier nu with
\* nullifier_map[nu] = c and c is in unspent_set when nu is processed, then
\* after the scan c is not in unspent_set, spent_set[c] is the note that was
\* at unspent_set[c], and nullifier_map is what it was when the nullifier loop
\* started.
C11_SpendMoves ==
    RecordedOk =>
      \A i \in SpendingNullifiers :
        LET b == BeforeNullifier(i)
            c == b.nullifier_map[Unwrap(DecodeNullifier(hist.block.nullifiers[i]))]
        IN  /\ ~ContainsKey(unspent_set, c)
            /\ ContainsKey(spent_set, c)
            /\ spent_set[c] = b.unspent_set[c]
            /\ nullifier_map = Mid.nullifier_map

\* C11 witness: a scanned block spent a note while another note stays unspent.
C11_Witness ==
    /\ RecordedOk
    /\ SpendingNullifiers # {}
    /\ unspent_set # EmptyMap
    /\ spent_set # EmptyMap

\* The state in which the i-th fragment of the recorded block is processed,
\* and whether the loop got that far.
BeforeFragment(i) == ScanFragments(hist.pre, SubSeq(hist.block.fragments, 1, i - 1), 1)

ProcessedFragments ==
    {i \in 1 .. Len(hist.block.fragments) :
        /\ hist.recorded
        /\ HeightAccepted(hist.block.height, hist.pre.last_block_height, hist.checked)
        /\ BeforeFragment(i).err = "none"
        /\ IsSome(DecodeCommitment(hist.block.fragments[i].note_commitment))}

\* The processed fragments whose ciphertext does not decrypt under our key.
ForeignFragments ==
    {i \in ProcessedFragments : ~IsSome(Decrypt(hist.block.fragments[i].encrypted_note))}

\* C12: a fragment whose ciphertext does not decrypt under the wallet's key
\* makes scan_block append exactly one leaf, its commitment, which stays
\* unwitnessed, and leaves nullifier_map, unspent_set and spent_set as they
\* were before that fragment; a block of such fragments only (and no
\* nullifier) leaves the three maps as they were before the call.
C12_ForeignFragment ==
    /\ \A i \in ForeignFragments :
          LET b == BeforeFragment(i).st
              a == ScanFragment(b, hist.block.fragments[i]).st
              c == Unwrap(DecodeCommitment(hist.block.fragments[i].note_commitment))
              pos == Len(b.note_commitment_tree.leaves)
          IN  /\ a.note_commitment_tree.leaves = Append(b.note_commitment_tree.leaves, c)
              /\ a.note_commitment_tree.witnessed = b.note_commitment_tree.witnessed
              /\ a.nullifier_map = b.nullifier_map
              /\ a.unspent_set = b.unspent_set
              /\ a.spent_set = b.spent_set
              /\ Len(note_commitment_tree.leaves) > pos
              /\ note_commitment_tree.leaves[pos + 1] = c
              /\ pos \notin note_commitment_tree.witnessed
    /\ (/\ RecordedOk
        /\ ForeignFragments = 1 .. Len(hist.block.fragments)
        /\ hist.block.nullifiers = << >>)
         => /\ nullifier_map = hist.pre.nullifier_map
            /\ unspent_set = hist.pre.unspent_set
            /\ spent_set = hist.pre.spent_set
            /\ Len(note_commitment_tree.leaves) =
                 Len(hist.pre.note_commitment_tree.leaves) + Len(hist.block.fragments)

\* C12 witness: the recorded block carried a note of somebody else and the
\* state holds a witnessed note of ours.
C12_Witness ==
    /\ RecordedOk
    /\ ForeignFragments # {}
    /\ unspent_set # EmptyMap
    /\ note_commitment_tree.witnessed # {}

\* The nullifiers of the recorded block that do not decode, and the block
\* without them.
MalformedNullifiers ==
    {i \in 1 .. Len(hist.block.nullifiers) : ~IsSome(DecodeNullifier(hist.block.nullifiers[i]))}

WithoutMalformed ==
    [hist.block EXCEPT !.nullifiers = SelectSeq(@, LAMBDA b : IsSome(DecodeNullifier(b)))]

\* The recorded call got as far as the nullifier loop.
ReachedNullifiers ==
    /\ hist.recorded
    /\ HeightAccepted(hist.block.height, hist.pre.last_block_height, hist.checked)
    /\ ScanFragments(hist.pre, hist.block.fragments, 1).err = "none"

\* C13: a nullifier that does not decode never fails scan_block: a block that
\* reaches the nullifier loop is accepted, last_block_height becomes its
\* height, and the state is the one the same block without its malformed
\* nullifiers leaves (the nullifiers before and after are processed as usual).
C13_MalformedNullifierSkipped ==
    (ReachedNullifiers /\ MalformedNullifiers # {}) =>
      /\ ret.res = "Ok"
      /\ last_block_height = Some(hist.block.height)
      /\ "invalid nullifier" \in ret.log
      /\ State = ScanBlock(hist.pre, WithoutMalformed, hist.checked).st

\* C13 witness: a block whose first nullifier is malformed and whose second
\* nullifier spends a note was scanned.
C13_Witness ==
    /\ ReachedNullifiers
    /\ 1 \in MalformedNullifiers
    /\ 2 \in SpendingNullifiers
    /\ ret.res = "Ok"
    /\ spent_set # EmptyMap

\* C14: over every step of scan_block, new_transaction and
\* add_asset_to_registry the keys of spent_set and of nullifier_map only grow,
\* and every key of spent_set has been a key of unspent_set before (for a
\* note received and spent by one block: between the two loops of that call).
C14_MapsOnlyGrow ==
    [][/\ DOMAIN spent_set \subseteq DOMAIN spent_set'
       /\ DOMAIN nullifier_map \subseteq DOMAIN nullifier_map'
       /\ DOMAIN spent_set' \subseteq hist'.ever_unspent]_vars

\* C14 witness: new_transaction has run on a state that holds a spent note,
\* an unspent note and their two nullifiers.
C14_Witness ==
    /\ ret.op = "new_transaction"
    /\ spent_set # EmptyMap
    /\ unspent_set # EmptyMap
    /\ Cardinality(DOMAIN nullifier_map) >= 2

\* The keys of a persisted sequence, decoded, are strictly increasing.
NullifierKeysIncrease(pairs) ==
    \A i \in 1 .. Len(pairs) - 1 :
        NullifierLess(Unwrap(DecodeNullifierHex(pairs[i][1])),
                      Unwrap(DecodeNullifierHex(pairs[i + 1][1])))

CommitmentKeysIncrease(pairs) ==
    \A i \in 1 .. Len(pairs) - 1 :
        Unwrap(DecodeCommitmentHex(pairs[i][1])) < Unwrap(DecodeCommitmentHex(pairs[i + 1][1]))

AssetIdKeysIncrease(pairs) ==
    \A i \in 1 .. Len(pairs) - 1 :
        Unwrap(DecodeAssetIdHex(pairs[i][1])) < Unwrap(DecodeAssetIdHex(pairs[i + 1][1]))

\* C15: converting a reachable state to ClientStateHelper and back succeeds
\* and gives the same last_block_height, tree, nullifier_map, unspent_set,
\* spent_set and asset_registry, with an empty transactions map; the persisted
\* sequences are in the key order of their maps and transactions is persisted
\* empty.
C15_RoundTrip ==
    LET helper == ClientStateHelper_from(State)
        back == ClientState_try_from(helper)
    IN  /\ back.ok
        /\ back.st.last_block_height = last_block_height
        /\ back.st.note_commitment_tree = note_commitment_tree
        /\ back.st.nullifier_map = nullifier_map
        /\ back.st.unspent_set = unspent_set
        /\ back.st.spent_set = spent_set
        /\ back.st.asset_registry = asset_registry
        /\ back.st.transactions = EmptyMap
        /\ helper.transactions = << >>
        /\ Len(helper.nullifier_map) = Cardinality(DOMAIN nullifier_map)
        /\ Len(helper.unspent_set) = Cardinality(DOMAIN unspent_set)
        /\ Len(helper.spent_set) = Cardinality(DOMAIN spent_set)
        /\ Len(helper.asset_registry) = Cardinality(DOMAIN asset_registry)
        /\ NullifierKeysIncrease(helper.nullifier_map)
        /\ CommitmentKeysIncrease(helper.unspent_set)
        /\ CommitmentKeysIncrease(helper.spent_set)
        /\ AssetIdKeysIncrease(helper.asset_registry)

\* C15 witness: a state with two nullifiers, an unspent note, a spent note
\* and both assets registered.
C15_Witness ==
    /\ Cardinality(DOMAIN nullifier_map) >= 2
    /\ unspent_set # EmptyMap
    /\ spent_set # EmptyMap
    /\ Cardinality(DOMAIN asset_registry) = 2
    /\ last_block_height # None

\* The processed fragments of the recorded block that carry a note of ours.
OwnFragments ==
    {i \in ProcessedFragments :
        /\ IsSome(DecodeEphemeralKey(hist.block.fragments[i].ephemeral_key))
        /\ IsSome(Decrypt(hist.block.fragments[i].encrypted_note))}

\* C16: every processed fragment is appended, in block order, before its
\* decryption is tried: the i-th fragment's commitment is the leaf at position
\* (leaves before the call) + i - 1, the nullifier of a discovered note is the
\* one derived from that position, and while no call has failed that position
\* is the number of fragments of all blocks scanned before plus i - 1 and the
\* leaf count is the number of fragments of the accepted blocks.
C16_PositionsFollowAppendOrder ==
    /\ ~failed => Len(note_commitment_tree.leaves) = hist.nfrag
    /\ \A i \in ProcessedFragments :
          LET c == Unwrap(DecodeCommitment(hist.block.fragments[i].note_commitment))
              pos == Len(hist.pre.note_commitment_tree.leaves) + i - 1
          IN  /\ Len(note_commitment_tree.leaves) > pos
              /\ note_commitment_tree.leaves[pos + 1] = c
              /\ ~failed => pos = hist.nfrag - Len(hist.block.fragments) + i - 1
              /\ i \in OwnFragments =>
                    /\ ContainsKey(nullifier_map, derive_nullifier(pos, c))
                    /\ nullifier_map[derive_nullifier(pos, c)] = c
                    /\ pos \in note_commitment_tree.witnessed

\* C16 witness: a note of ours was found by the recorded block after an
\* earlier block had appended a foreign fragment, and no call failed.
C16_Witness ==
    /\ RecordedOk
    /\ ~failed
    /\ hist.pre.note_commitment_tree.leaves # << >>
    /\ hist.pre.note_commitment_tree.witnessed = {}
    /\ OwnFragments # {}

\* The arguments of the recorded new_transaction call and the shuffled
\* candidate list its selection loop walked.
TxArgs == tx.args[1]

ShuffledCandidates ==
    Shuffle(Candidates(State, TxArgs.denomination, TxArgs.source_address).notes, TxArgs.rng)

\* C17: when new_transaction returns a transaction, the notes it spends are a
\* prefix of the shuffled candidates, all of the requested denomination, their
\* amounts sum to at least amount + fee, and without the last of them to less
\* than amount + fee.
C17_GreedyPrefix ==
    tx.kind = "Ok" =>
      LET n == Len(tx.spends) IN
      /\ n >= 1
      /\ n <= Len(ShuffledCandidates)
      /\ tx.spends = SubSeq(ShuffledCandidates, 1, n)
      /\ \A i \in 1 .. n :
            /\ ContainsKey(asset_registry, tx.spends[i].asset_id)
            /\ asset_registry[tx.spends[i].asset_id] = TxArgs.denomination
      /\ SumAmounts(tx.spends) >= TxArgs.amount + TxArgs.fee
      /\ SumAmounts(SubSeq(tx.spends, 1, n - 1)) < TxArgs.amount + TxArgs.fee

\* The nullifiers of the recorded block that decode to a nullifier whose
\* commitment is in spent_set when they are processed.
AlreadySpentNullifiers ==
    {i \in 1 .. Len(hist.block.nullifiers) :
        LET bytes == hist.block.nullifiers[i]
            b == BeforeNullifier(i)
        IN  /\ IsSome(DecodeNullifier(bytes))
            /\ ContainsKey(b.nullifier_map, Unwrap(DecodeNullifier(bytes)))
            /\ ContainsKey(b.spent_set, b.nullifier_map[Unwrap(DecodeNullifier(bytes))])}

\* The recorded block with every nullifier kept at its first occurrence only.
WithoutRepeats ==
    [hist.block EXCEPT !.nullifiers =
        LET ns == hist.block.nullifiers
            first == {i \in 1 .. Len(ns) : \A j \in 1 .. i - 1 : ns[j] # ns[i]}
        IN  [k \in 1 .. Cardinality(first) |->
               ns[CHOOSE i \in first : Cardinality({j \in first : j < i}) = k - 1]]]

\* C18: in a successful scan, processing a nullifier whose commitment is
\* already in spent_set changes neither unspent_set nor spent_set nor
\* nullifier_map, and a block that lists a nullifier twice leaves the three
\* maps as the block that lists it once does.
C18_SpentNullifierNoOp ==
    RecordedOk =>
      /\ \A i \in AlreadySpentNullifiers :
            LET b == BeforeNullifier(i)
                a == ScanNullifier([st |-> b, log |-> {}], hist.block.nullifiers[i]).st
            IN  /\ a.unspent_set = b.unspent_set
                /\ a.spent_set = b.spent_set
                /\ a.nullifier_map = b.nullifier_map
      /\ LET once == ScanBlock(hist.pre, WithoutRepeats, hist.checked).st
         IN  /\ unspent_set = once.unspent_set
             /\ spent_set = once.spent_set
             /\ nullifier_map = once.nullifier_map

\* C19: when new_transaction returns a transaction, its change output goes to
\* the caller's change index if one was given and else to the index of the
\* diversifier of the last note spent, and carries the selected total minus
\* amount minus fee in the asset of the destination output.
C19_ChangeOutput ==
    tx.kind = "Ok" =>
      LET change == tx.change[1]
          last_note == tx.spends[Len(tx.spends)]
      IN  /\ change.address =
                IF IsSome(TxArgs.change_address) THEN Unwrap(TxArgs.change_address)
                ELSE index_for_diversifier(last_note.diversifier)
          /\ change.amount = SumAmounts(tx.spends) - TxArgs.amount - TxArgs.fee
          /\ change.asset_id = tx.output[1].asset_id

\* The notes of ours the recorded block carries together with the nullifier
\* derived for them: << fragment index, commitment >>.
ReceivedAndSpent ==
    {<< i, Unwrap(DecodeCommitment(hist.block.fragments[i].note_commitment)) >> :
        i \in {k \in OwnFragments :
                 \E j \in 1 .. Len(hist.block.nullifiers) :
                    DecodeNullifier(hist.block.nullifiers[j]) =
                      Some(derive_nullifier(
                             Len(hist.pre.note_commitment_tree.leaves) + k - 1,
                             Unwrap(DecodeCommitment(
                                      hist.block.fragments[k].note_commitment))))}}

\* C20: scan_block processes all fragments of a block before any of its
\* nullifiers: when a successfully scanned block carries a decryptable
\* fragment for a note and the nullifier derived for that note, the note's
\* commitment ends in spent_set, with that note, and not in unspent_set.
C20_FragmentsBeforeNullifiers ==
    RecordedOk =>
      \A ic \in ReceivedAndSpent :
        /\ ContainsKey(spent_set, ic[2])
        /\ ~ContainsKey(unspent_set, ic[2])
        /\ spent_set[ic[2]] = Unwrap(Decrypt(hist.block.fragments[ic[1]].encrypted_note))

\* C20 witness: a block that both delivered and spent a note never seen
\* before was scanned.
C20_Witness ==
    /\ RecordedOk
    /\ \E ic \in ReceivedAndSpent :
          /\ ~ContainsKey(hist.pre.unspent_set, ic[2])
          /\ ~ContainsKey(hist.pre.spent_set, ic[2])
    /\ hist.pre.nullifier_map # EmptyMap

\* C21: in every state reached by scan_block calls, successful or failed,
\* every value of nullifier_map is a key of unspent_set or of spent_set, and
\* no call has taken the "known nullifier but note is not in unspent set or
\* spent set" branch of the nullifier loop.
C21_NullifiersPointAtNotes ==
    /\ \A nu \in DOMAIN nullifier_map : nullifier_map[nu] \in Received
    /\ "note is not in unspent set or spent set" \notin ret.log

\* C21 witness: the only call so far failed on its second fragment after its
\* first fragment had delivered a note, whose nullifier is recorded.
C21_Witness ==
    /\ ret.op = "scan_block"
    /\ ret.res \in {"invalid note commitment", "invalid ephemeral key"}
    /\ last_block_height = None
    /\ unspent_set # EmptyMap
    /\ nullifier_map # EmptyMap

====
